---- MODULE Spec2Model ----
(***************************************************************************)
(* Model of src/Farud-Detection/agentfraud.py: the schema normalizer        *)
(* (validate_transactions), the six detect_* rules and score_alerts.        *)
(*                                                                          *)
(* A table (pandas DataFrame) is [columns, rows]: the sequence of column    *)
(* labels and the sequence of rows, each row a sequence of cells aligned    *)
(* with the columns.  A cell is a tagged value [t, s, n]:                   *)
(*   "str" a Python string s, "num" a number n, "ts" a Timestamp whose      *)
(*   proleptic Gregorian ordinal is n, "nan" a missing value (NaN/None),    *)
(*   "nat" the datetime null marker NaT.                                    *)
(* Amounts are whole numbers (floats with an exact integer value), so sums, *)
(* means and comparisons are computed exactly.  Scores are kept in tenths   *)
(* of a point (Score 80.6 is 806).                                          *)
(***************************************************************************)
EXTENDS Integers, Sequences, FiniteSets, TLC

VARIABLES nat_fill, raw, pc, df, dup_df, spikes_df, weekend_df, emp_df,
          many_small_df, thresh_df, alerts

vars == <<nat_fill, raw, pc, df, dup_df, spikes_df, weekend_df, emp_df,
          many_small_df, thresh_df, alerts>>

----------------------------------------------------------------------------
(* Bounds of the input families.                                            *)
MaxCols == 4
MaxRows == 3
MaxCopies == 10
MaxCount == 10

----------------------------------------------------------------------------
(* Generic helpers.                                                         *)
Range(s) == {s[i] : i \in DOMAIN s}

Min(a, b) == IF a <= b THEN a ELSE b

Abs(a) == IF a < 0 THEN -a ELSE a

\* Python int(x) of a quotient x = a / b (b > 0): truncation toward zero.
IntTrunc(a, b) == IF a >= 0 THEN a \div b ELSE -((-a) \div b)

RECURSIVE SumSeq(_)
SumSeq(s) == IF s = <<>> THEN 0 ELSE Head(s) + SumSeq(Tail(s))

RECURSIVE GCD(_, _)
GCD(a, b) == IF b = 0 THEN a ELSE GCD(b, a % b)

\* a > b for sequences of numbers of one length, compared left to right.
RECURSIVE KeyGreater(_, _)
KeyGreater(a, b) ==
    IF a = <<>> THEN FALSE
    ELSE IF Head(a) # Head(b) THEN Head(a) > Head(b)
    ELSE KeyGreater(Tail(a), Tail(b))

\* Stable insertion of position k into order, which is sorted by keys
\* descending: before the first position whose key is smaller, so after
\* every position whose key is equal.
InsertSorted(order, k, keys) ==
    LET later == {i \in DOMAIN order : KeyGreater(keys[k], keys[order[i]])}
        p     == IF later = {} THEN Len(order) + 1
                 ELSE CHOOSE i \in later : \A j \in later : i <= j
    IN  SubSeq(order, 1, p - 1) \o <<k>> \o SubSeq(order, p, Len(order))

\* The positions of keys sorted by key descending, equal keys in their
\* original order (a stable sort).
RECURSIVE StableOrderUpTo(_, _)
StableOrderUpTo(keys, k) ==
    IF k = 0 THEN <<>> ELSE InsertSorted(StableOrderUpTo(keys, k - 1), k, keys)

\* s sorted by keys descending, stably: sorted(..., reverse=True), and
\* sort_values(..., ascending=False), which keeps ties in their order for
\* the short tables of the model.
SortDescending(s, keys) ==
    LET order == StableOrderUpTo(keys, Len(keys))
    IN  [i \in DOMAIN s |-> s[order[i]]]

----------------------------------------------------------------------------
(* Cells.                                                                   *)
Str(s) == [t |-> "str", s |-> s, n |-> 0]
Num(n) == [t |-> "num", s |-> "", n |-> n]
Ts(d)  == [t |-> "ts",  s |-> "", n |-> d]
NaN    == [t |-> "nan", s |-> "", n |-> 0]
NaT    == [t |-> "nat", s |-> "", n |-> 0]

\* pd.isna / pd.notna of a scalar.
IsNull(c) == c.t \in {"nan", "nat"}

----------------------------------------------------------------------------
(* Strings: the characters of every string the code inspects or orders.     *)
Chars ==
    (""           :> <<>>) @@
    ("2024-01-05" :> <<"2","0","2","4","-","0","1","-","0","5">>) @@
    ("2024-01-06" :> <<"2","0","2","4","-","0","1","-","0","6">>) @@
    ("2024-01-07" :> <<"2","0","2","4","-","0","1","-","0","7">>) @@
    ("2024-01-08" :> <<"2","0","2","4","-","0","1","-","0","8">>) @@
    ("2024-02-30" :> <<"2","0","2","4","-","0","2","-","3","0">>) @@
    ("not a date" :> <<"n","o","t"," ","a"," ","d","a","t","e">>) @@
    ("23:00"      :> <<"2","3",":","0","0">>) @@
    ("09:30"      :> <<"0","9",":","3","0">>) @@
    ("05:59"      :> <<"0","5",":","5","9">>) @@
    ("20:59"      :> <<"2","0",":","5","9">>) @@
    ("2300"       :> <<"2","3","0","0">>) @@
    ("ab:cd"      :> <<"a","b",":","c","d">>) @@
    ("250"        :> <<"2","5","0">>) @@
    ("abc"        :> <<"a","b","c">>) @@
    ("A1"         :> <<"A","1">>) @@
    ("A2"         :> <<"A","2">>) @@
    ("E1"         :> <<"E","1">>) @@
    ("E2"         :> <<"E","2">>) @@
    ("E3"         :> <<"E","3">>) @@
    ("E4"         :> <<"E","4">>) @@
    ("E5"         :> <<"E","5">>) @@
    ("V1"         :> <<"V","1">>) @@
    ("V2"         :> <<"V","2">>) @@
    ("INV1"       :> <<"I","N","V","1">>) @@
    ("INV2"       :> <<"I","N","V","2">>) @@
    ("T1"         :> <<"T","1">>) @@
    ("T2"         :> <<"T","2">>) @@
    ("T3"         :> <<"T","3">>)

Digit ==
    ("0" :> 0) @@ ("1" :> 1) @@ ("2" :> 2) @@ ("3" :> 3) @@ ("4" :> 4) @@
    ("5" :> 5) @@ ("6" :> 6) @@ ("7" :> 7) @@ ("8" :> 8) @@ ("9" :> 9)

\* Code points of the characters that occur in grouping keys.
Ord ==
    ("1" :> 49) @@ ("2" :> 50) @@ ("3" :> 51) @@ ("4" :> 52) @@ ("5" :> 53) @@
    ("A" :> 65) @@ ("E" :> 69) @@ ("I" :> 73) @@ ("N" :> 78) @@ ("T" :> 84) @@
    ("V" :> 86)

\* Python's < on strings: lexicographic by code point.
RECURSIVE CharsLess(_, _)
CharsLess(a, b) ==
    IF b = <<>> THEN FALSE
    ELSE IF a = <<>> THEN TRUE
    ELSE IF Ord[Head(a)] # Ord[Head(b)] THEN Ord[Head(a)] < Ord[Head(b)]
    ELSE CharsLess(Tail(a), Tail(b))

StrLess(a, b) == CharsLess(Chars[a], Chars[b])

\* Python int(text) for text made of an optional sign and decimal digits.
RECURSIVE DigitsValue(_)
DigitsValue(cs) ==
    IF cs = <<>> THEN 0 ELSE 10 * DigitsValue(SubSeq(cs, 1, Len(cs) - 1)) + Digit[cs[Len(cs)]]

AllDigits(cs) == cs # <<>> /\ \A i \in DOMAIN cs : cs[i] \in DOMAIN Digit

ParseInt(cs) ==
    IF cs # <<>> /\ Head(cs) \in {"-", "+"}
    THEN IF AllDigits(Tail(cs))
         THEN [ok |-> TRUE,
               v  |-> IF Head(cs) = "-" THEN -DigitsValue(Tail(cs)) ELSE DigitsValue(Tail(cs))]
         ELSE [ok |-> FALSE, v |-> 0]
    ELSE IF AllDigits(cs) THEN [ok |-> TRUE, v |-> DigitsValue(cs)]
         ELSE [ok |-> FALSE, v |-> 0]

----------------------------------------------------------------------------
(* Calendar dates.                                                          *)
IsLeap(y) == (y % 4 = 0 /\ y % 100 # 0) \/ y % 400 = 0

DaysInMonth(y, m) ==
    IF m = 2 THEN (IF IsLeap(y) THEN 29 ELSE 28)
    ELSE IF m \in {4, 6, 9, 11} THEN 30 ELSE 31

RECURSIVE DaysBeforeMonth(_, _)
DaysBeforeMonth(y, m) ==
    IF m = 1 THEN 0 ELSE DaysBeforeMonth(y, m - 1) + DaysInMonth(y, m - 1)

\* The proleptic Gregorian ordinal (0001-01-01 is day 1, a Monday).
Ordinal(y, m, d) ==
    365 * (y - 1) + ((y - 1) \div 4) - ((y - 1) \div 100) + ((y - 1) \div 400)
    + DaysBeforeMonth(y, m) + d

\* Timestamp.weekday(): Monday is 0, Sunday is 6.
Weekday(ord) == (ord + 6) % 7

\* pd.to_datetime(..., errors="coerce") of one string in ISO form YYYY-MM-DD;
\* "" and every string that is no calendar date give NaT.
ParseDateChars(cs) ==
    IF /\ Len(cs) = 10
       /\ cs[5] = "-" /\ cs[8] = "-"
       /\ AllDigits(SubSeq(cs, 1, 4)) /\ AllDigits(SubSeq(cs, 6, 7))
       /\ AllDigits(SubSeq(cs, 9, 10))
    THEN LET y == DigitsValue(SubSeq(cs, 1, 4))
             m == DigitsValue(SubSeq(cs, 6, 7))
             d == DigitsValue(SubSeq(cs, 9, 10))
         IN  IF y >= 1 /\ m \in 1..12 /\ d >= 1 /\ d <= DaysInMonth(y, m)
             THEN Ts(Ordinal(y, m, d)) ELSE NaT
    ELSE NaT

\* A conversion that parses strings only and takes a Timestamp for no date.
ToDatetime_StringsOnly(c) ==
    IF c.t = "str" THEN ParseDateChars(Chars[c.s]) ELSE NaT

\* pd.to_datetime(..., errors="coerce") of one cell.
ToDatetime(c) ==
    IF c.t = "ts" THEN c
    ELSE IF c.t = "str" THEN ParseDateChars(Chars[c.s])
    ELSE NaT

\* pd.to_numeric(..., errors="coerce") of one cell.
ToNumeric(c) ==
    IF c.t = "num" THEN c
    ELSE IF c.t = "str" /\ ParseInt(Chars[c.s]).ok THEN Num(ParseInt(Chars[c.s]).v)
    ELSE NaN

----------------------------------------------------------------------------
(* Tables.                                                                  *)
Table(columns, rows) == [columns |-> columns, rows |-> rows]

\* pd.DataFrame(): no columns, no rows.
EmptyFrame == Table(<<>>, <<>>)

HasColumn(T, name) == name \in Range(T.columns)

ColumnIdxs(T, name) == {i \in DOMAIN T.columns : T.columns[i] = name}

\* The position of a label that occurs once.
ColumnIdx(T, name) == CHOOSE i \in DOMAIN T.columns : T.columns[i] = name

\* df[name] = value for a label the table lacks: a new last column.
AddColumn(T, name, value) ==
    Table(Append(T.columns, name), [r \in DOMAIN T.rows |-> Append(T.rows[r], value)])

----------------------------------------------------------------------------
(* validate_transactions.                                                   *)

\* str.lower() on the column labels of the model.
Lower ==
    ("TransactionID" :> "transactionid") @@ ("transactionid" :> "transactionid") @@
    ("Date" :> "date") @@ ("DATE" :> "date") @@
    ("Time" :> "time") @@ ("time" :> "time") @@
    ("Vendor" :> "vendor") @@
    ("Amount" :> "amount") @@ ("amount" :> "amount") @@
    ("Account" :> "account") @@
    ("EmployeeID" :> "employeeid") @@
    ("InvoiceNumber" :> "invoicenumber") @@
    ("Description" :> "description") @@
    ("Notes" :> "notes")

\* The canonical labels, in the order lines 15-23 look them up.
CanonCols ==
    <<"TransactionID", "Date", "Time", "Vendor", "Amount", "Account",
      "EmployeeID", "InvoiceNumber", "Description">>

\* The labels line 33 synthesizes when absent, in its order.
OptionalCols ==
    <<"TransactionID", "Time", "Vendor", "Account", "EmployeeID",
      "InvoiceNumber", "Description">>

\* cols = {c.lower(): c for c in df.columns}: a later label with the same
\* lower-case form replaces an earlier one.
ColsDict(columns) ==
    [k \in {Lower[columns[i]] : i \in DOMAIN columns} |->
        LET is == {i \in DOMAIN columns : Lower[columns[i]] = k}
        IN  columns[CHOOSE i \in is : \A j \in is : j <= i]]

\* rename_map: the label found for each canonical name maps to that name.
RenameMap(columns) ==
    LET cols  == ColsDict(columns)
        found == {K \in Range(CanonCols) : Lower[K] \in DOMAIN cols}
    IN  [c \in {cols[Lower[K]] : K \in found} |->
            CHOOSE K \in found : cols[Lower[K]] = c]

\* df.rename(columns=rename_map).
Rename(T) ==
    LET rm == RenameMap(T.columns)
    IN  Table([i \in DOMAIN T.columns |->
                  IF T.columns[i] \in DOMAIN rm THEN rm[T.columns[i]] ELSE T.columns[i]],
              T.rows)

\* The check with both identifier columns required.
MinimalCheck_BothIds(T) ==
    /\ HasColumn(T, "Date")
    /\ HasColumn(T, "Amount")
    /\ (HasColumn(T, "TransactionID") /\ HasColumn(T, "InvoiceNumber"))

\* The minimal check of line 27.
MinimalCheck(T) ==
    /\ HasColumn(T, "Date")
    /\ HasColumn(T, "Amount")
    /\ (HasColumn(T, "TransactionID") \/ HasColumn(T, "InvoiceNumber"))

\* pd.to_numeric(...).fillna(0.0) of one cell.
ToAmount(c) == IF ToNumeric(c).t = "nan" THEN Num(0) ELSE ToNumeric(c)

\* df["Date"] = pd.to_datetime(df["Date"], errors="coerce")
ParseDates(T) ==
    Table(T.columns,
          [r \in DOMAIN T.rows |->
              [i \in DOMAIN T.columns |->
                  IF T.columns[i] = "Date" THEN ToDatetime(T.rows[r][i]) ELSE T.rows[r][i]]])

\* df["Amount"] = pd.to_numeric(df["Amount"], errors="coerce").fillna(0.0)
ParseAmounts(T) ==
    Table(T.columns,
          [r \in DOMAIN T.rows |->
              [i \in DOMAIN T.columns |->
                  IF T.columns[i] = "Amount" THEN ToAmount(T.rows[r][i]) ELSE T.rows[r][i]]])

\* The loop of lines 33-35.
EnsureCols(T) ==
    LET f[k \in 0..Len(OptionalCols)] ==
            IF k = 0 THEN T
            ELSE IF HasColumn(f[k - 1], OptionalCols[k]) THEN f[k - 1]
                 ELSE AddColumn(f[k - 1], OptionalCols[k], Str(""))
    IN  f[Len(OptionalCols)]

\* fillna("") of one cell.  A missing value in an object column becomes "".
\* What becomes of NaT in the datetime64 Date column depends on the pandas
\* build: either the column is cast to object and the cell becomes "" (fill
\* = "str"), or "" is taken as the datetime null and the cell stays NaT
\* (fill = "nat").
FillCell(c, fill) ==
    IF c.t = "nan" THEN Str("")
    ELSE IF c.t = "nat" /\ fill = "str" THEN Str("")
    ELSE c

FillNa(T, fill) ==
    Table(T.columns,
          [r \in DOMAIN T.rows |->
              [i \in DOMAIN T.columns |-> FillCell(T.rows[r][i], fill)]])

\* validate_transactions(df): [status, df].  status is "ok", "ValueError"
\* (the validation error of line 28), "DuplicateKeys" (pd.to_datetime given
\* the two columns labelled Date: ValueError "cannot assemble with duplicate
\* keys") or "TypeError" (pd.to_numeric given the two columns labelled Amount).
validate_transactions(T, fill) ==
    LET renamed == Rename(T)
    IN  IF ~MinimalCheck(renamed) THEN [status |-> "ValueError", df |-> renamed]
        ELSE IF Cardinality(ColumnIdxs(renamed, "Date")) > 1
             THEN [status |-> "DuplicateKeys", df |-> renamed]
        ELSE IF Cardinality(ColumnIdxs(renamed, "Amount")) > 1
             THEN [status |-> "TypeError", df |-> renamed]
        ELSE [status |-> "ok",
              df |-> FillNa(EnsureCols(ParseAmounts(ParseDates(renamed))), fill)]

----------------------------------------------------------------------------
(* Grouping (DataFrame.groupby, sort=True).                                 *)
Col(T, r, name) == T.rows[r][ColumnIdx(T, name)]

\* The positions of the rows of T.
Index(T) == [r \in DOMAIN T.rows |-> r]

\* The row positions of T, in order, whose cell in column name is key.
GroupRows(T, name, key) ==
    LET InGroup(r) == Col(T, r, name) = key
    IN  SelectSeq(Index(T), InGroup)

\* The order groupby sorts keys in: strings by code point, dates by day.
CellLess(a, b) == IF a.t = "ts" /\ b.t = "ts" THEN a.n < b.n ELSE StrLess(a.s, b.s)

\* The same for keys of several cells, compared left to right.
RECURSIVE KeyLess(_, _)
KeyLess(a, b) ==
    IF a = <<>> THEN FALSE
    ELSE IF Head(a) # Head(b) THEN CellLess(Head(a), Head(b))
    ELSE KeyLess(Tail(a), Tail(b))

\* The keys of the finite set S in increasing order.
RECURSIVE SortKeys(_)
SortKeys(S) ==
    IF S = {} THEN <<>>
    ELSE LET least == CHOOSE x \in S : \A y \in S \ {x} : KeyLess(x, y)
         IN  <<least>> \o SortKeys(S \ {least})

\* The group keys of column name over the rows rs, sorted.
GroupKeys(T, name, rs) ==
    LET keys == SortKeys({<<Col(T, rs[i], name)>> : i \in DOMAIN rs})
    IN  [k \in DOMAIN keys |-> keys[k][1]]

\* Sum of the Amount column over the rows rs.
AmountSum(T, rs) == SumSeq([i \in DOMAIN rs |-> Col(T, rs[i], "Amount").n])

----------------------------------------------------------------------------
(* detect_duplicate_invoices.                                               *)
detect_duplicate_invoices(T) ==
    IF ~HasColumn(T, "InvoiceNumber") THEN EmptyFrame
    ELSE
    LET NonEmpty(r) == Col(T, r, "InvoiceNumber") # Str("")
        named   == SelectSeq(Index(T), NonEmpty)
        Count(r) == Len(LET Same(q) == Col(T, q, "InvoiceNumber") = Col(T, r, "InvoiceNumber")
                        IN  SelectSeq(named, Same))
        IsDup(r) == Count(r) > 1
        dup     == SelectSeq(named, IsDup)
        keys    == GroupKeys(T, "InvoiceNumber", dup)
        summary == [k \in DOMAIN keys |->
                       LET g == GroupRows(T, "InvoiceNumber", keys[k])
                       IN  <<keys[k], Num(Len(g)), Num(AmountSum(T, g))>>]
    IN  IF dup = <<>> THEN EmptyFrame
        ELSE Table(<<"InvoiceNumber", "Count", "TotalAmount">>,
                   \* sort_values("TotalAmount", ascending=False)
                   SortDescending(summary, [k \in DOMAIN summary |-> <<summary[k][3].n>>]))

----------------------------------------------------------------------------
(* detect_amount_spikes.                                                    *)

\* The default z_thresh of line 48.
Z_THRESH == 3

\* Floor of the square root of x >= 0.
RECURSIVE IsqrtIn(_, _, _)
IsqrtIn(x, lo, hi) ==
    IF lo >= hi THEN lo
    ELSE LET mid == (lo + hi + 1) \div 2
         IN  IF mid * mid <= x THEN IsqrtIn(x, mid, hi) ELSE IsqrtIn(x, lo, mid - 1)

Isqrt(x) == IsqrtIn(x, 0, 46340)

\* For a group of n amounts with sum S and sum of squares Q:
\*   mu = S / n,  sigma (ddof=0) = sqrt(n*Q - S*S) / n,
\*   z(a) = (a - mu) / sigma = (n*a - S) / sqrt(n*Q - S*S).
GroupSum(amounts) == SumSeq(amounts)

GroupSumSq(amounts) == SumSeq([i \in DOMAIN amounts |-> amounts[i] * amounts[i]])

\* n*n times the population variance (ddof=0).
VarTimesN2(amounts) ==
    Len(amounts) * GroupSumSq(amounts) - GroupSum(amounts) * GroupSum(amounts)

\* The deviation from the mean compared without dividing by sigma:
\* abs(a - mu) >= z_thresh.
IsSpike_Undivided(amounts, a, z_thresh) ==
    Abs(Len(amounts) * a - GroupSum(amounts)) >= z_thresh * Len(amounts)

\* abs(zi) >= z_thresh, compared exactly on the squares.
IsSpike(amounts, a, z_thresh) ==
    LET num == Len(amounts) * a - GroupSum(amounts)
    IN  num * num >= z_thresh * z_thresh * VarTimesN2(amounts)

\* float(zi) in hundredths, truncated toward zero.
ZscoreCenti(amounts, a) ==
    LET num == Len(amounts) * a - GroupSum(amounts)
        den == VarTimesN2(amounts)
        g   == GCD(num * num, den)
        mag == Isqrt((10000 * ((num * num) \div g)) \div (den \div g))
    IN  IF num < 0 THEN -mag ELSE mag

\* Zscore is kept in hundredths, AccountMean and AccountStd in whole units.
detect_amount_spikes(T, z_thresh) ==
    LET keys == GroupKeys(T, "Account", Index(T))
        GroupOutliers(key) ==
            LET g       == GroupRows(T, "Account", key)
                amounts == [i \in DOMAIN g |-> Col(T, g[i], "Amount").n]
                Hit(i)  == IsSpike(amounts, amounts[i], z_thresh)
                hits    == SelectSeq([i \in DOMAIN g |-> i], Hit)
            IN  IF Len(amounts) < 5 \/ VarTimesN2(amounts) = 0 THEN <<>>
                ELSE [j \in DOMAIN hits |->
                        T.rows[g[hits[j]]] \o
                        << Num(ZscoreCenti(amounts, amounts[hits[j]])),
                           Num(GroupSum(amounts) \div Len(amounts)),
                           Num(Isqrt(VarTimesN2(amounts)) \div Len(amounts)) >>]
        f[k \in 0..Len(keys)] ==
            IF k = 0 THEN <<>> ELSE f[k - 1] \o GroupOutliers(keys[k])
        outliers == f[Len(keys)]
    IN  IF outliers = <<>> THEN EmptyFrame
        ELSE Table(T.columns \o <<"Zscore", "AccountMean", "AccountStd">>, outliers)

----------------------------------------------------------------------------
(* detect_weekend_night_transactions.                                       *)

\* str(r.get("Time", "")): only a string can hold the ':' the code looks for.
TimeChars(c) == IF c.t = "str" THEN Chars[c.s] ELSE <<>>

\* tstr.split(":")[0]
BeforeColon(cs) ==
    LET colons == {i \in DOMAIN cs : cs[i] = ":"}
    IN  IF colons = {} THEN cs
        ELSE SubSeq(cs, 1, (CHOOSE i \in colons : \A j \in colons : i <= j) - 1)

\* Lines 78-86: the hour is read and is before 6 or after 20.  An empty
\* string, one without ':' or an hour that int() rejects is skipped.
IsOffHours(c) ==
    LET cs == TimeChars(c)
    IN  /\ cs # <<>>
        /\ ":" \in Range(cs)
        /\ ParseInt(BeforeColon(cs)).ok
        /\ (ParseInt(BeforeColon(cs)).v < 6 \/ ParseInt(BeforeColon(cs)).v > 20)

\* date.weekday() raises AttributeError when date is a string: pd.notna("")
\* is True and str has no weekday().
DateRaises(c) == ~IsNull(c) /\ c.t # "ts"

IsWeekend(c) == c.t = "ts" /\ Weekday(c.n) >= 5

\* The rows res collects for row r: one row tagged Weekend, else one tagged
\* "Diluar jam kerja" (off-hours), else none.
TimingHits(T, r) ==
    IF IsWeekend(Col(T, r, "Date")) THEN <<Append(T.rows[r], Str("Weekend"))>>
    ELSE IF IsOffHours(Col(T, r, "Time")) THEN <<Append(T.rows[r], Str("Diluar jam kerja"))>>
    ELSE <<>>

\* DataFrame.drop_duplicates(subset=[name]): the first row of each value stays.
DropDuplicates(T, name) ==
    LET First(r) == \A q \in 1..(r - 1) : Col(T, q, name) # Col(T, r, name)
        keep == SelectSeq(Index(T), First)
    IN  Table(T.columns, [i \in DOMAIN keep |-> T.rows[keep[i]]])

\* [status, df]: status "AttributeError" when the loop raises.
detect_weekend_night_transactions(T) ==
    LET f[k \in 0..Len(T.rows)] ==
            IF k = 0 THEN <<>> ELSE f[k - 1] \o TimingHits(T, k)
        res == f[Len(T.rows)]
    IN  IF \E r \in DOMAIN T.rows : DateRaises(Col(T, r, "Date"))
        THEN [status |-> "AttributeError", df |-> EmptyFrame]
        ELSE IF res = <<>> THEN [status |-> "ok", df |-> EmptyFrame]
        ELSE [status |-> "ok",
              df |-> DropDuplicates(Table(Append(T.columns, "Reason"), res), "TransactionID")]

----------------------------------------------------------------------------
(* detect_employee_anomalies.                                               *)

\* The default min_tx of line 91.
MIN_TX == 5

\* The comparison turned round: <= for >=.
TotalIsHigh_Le(total, sumTotals, k) == k * total <= 2 * sumTotals

\* summary["TotalAmount"] >= mean_total*2, with mean_total the mean of the
\* k totals whose sum is sumTotals: total >= 2*sumTotals/k.
TotalIsHigh(total, sumTotals, k) == k * total >= 2 * sumTotals

detect_employee_anomalies(T, min_tx) ==
    LET keys == GroupKeys(T, "EmployeeID", Index(T))
        summary == [k \in DOMAIN keys |->
                       LET g == GroupRows(T, "EmployeeID", keys[k])
                       IN  <<keys[k], Num(Len(g)), Num(AmountSum(T, g))>>]
        sumTotals == SumSeq([k \in DOMAIN summary |-> summary[k][3].n])
        Suspect(x) == x[2].n >= min_tx \/ TotalIsHigh(x[3].n, sumTotals, Len(summary))
        suspects == SelectSeq(summary, Suspect)
    IN  Table(<<"EmployeeID", "Count", "TotalAmount">>,
              \* sort_values(by=["Count","TotalAmount"], ascending=False)
              SortDescending(suspects,
                             [k \in DOMAIN suspects |-> <<suspects[k][2].n, suspects[k][3].n>>]))

----------------------------------------------------------------------------
(* detect_many_small_invoices_same_vendor.                                  *)

\* The defaults of line 98.
SAME_DAY_COUNT == 4
SMALL_AMOUNT == 200

detect_many_small_invoices_same_vendor(T, same_day_count, small_amount) ==
    LET \* df2["DateOnly"] = pd.to_datetime(df2["Date"]).dt.date
        DateOnly(r) == ToDatetime(Col(T, r, "Date"))
        Key(r)   == <<Col(T, r, "Vendor"), DateOnly(r)>>
        \* groupby drops the rows whose key holds a null
        Keyed(r) == ~IsNull(DateOnly(r))
        keyed    == SelectSeq(Index(T), Keyed)
        Group(key) == LET In(r) == Key(r) = key IN SelectSeq(keyed, In)
        Small(r) == Col(T, r, "Amount").n <= small_amount
        Kept(key) == Len(SelectSeq(Group(key), Small)) >= same_day_count
        keys     == SortKeys({k \in {Key(keyed[i]) : i \in DOMAIN keyed} : Kept(k)})
        summary  == [k \in DOMAIN keys |->
                        <<keys[k][1], keys[k][2], Num(Len(Group(keys[k]))),
                          Num(AmountSum(T, Group(keys[k])))>>]
    IN  IF \A r \in DOMAIN T.rows : IsNull(Col(T, r, "Date")) THEN EmptyFrame
        ELSE IF keys = <<>> THEN EmptyFrame
        ELSE Table(<<"Vendor", "DateOnly", "Count", "TotalAmount">>,
                   \* sort_values("Count", ascending=False)
                   SortDescending(summary, [k \in DOMAIN summary |-> <<summary[k][3].n>>]))

----------------------------------------------------------------------------
(* detect_threshold_amounts.                                                *)

\* The default thresholds of line 109.
THRESHOLDS == {9999, 99999, 1000000}

detect_threshold_amounts(T, thresholds) ==
    LET Hit(r) == Col(T, r, "Amount").n \in thresholds
        hits == SelectSeq(Index(T), Hit)
    IN  Table(T.columns, [i \in DOMAIN hits |-> T.rows[hits[i]]])

----------------------------------------------------------------------------
(* score_alerts.  An alert is [Type, Key, Score]: Key is the sequence of    *)
(* cells the key string is made of (two for "Vendor|DateOnly"), Score is in *)
(* tenths of a point.  Message, a rendering of the same fields, is left out.*)

\* r.get(name, "")
GetOr(T, r, name) == IF HasColumn(T, name) THEN Col(T, r, name) ELSE Str("")

\* 80 + min(20, int(r['TotalAmount']/1000)) with floor division for int().
DupScore_Floor(total) == 10 * (80 + Min(20, total \div 1000))

\* 80 + min(20, int(r['TotalAmount']/1000))
DupScore(total) == 10 * (80 + Min(20, IntTrunc(total, 1000)))

\* 70 + min(30, abs(Zscore)*5), Zscore in hundredths.
SpikeScore(zcenti) == 700 + Min(300, Abs(zcenti) \div 2)

\* 60 + min(40, int(Count))
EmpScore(count) == 10 * (60 + Min(40, count))

Alert(type, key, score) == [Type |-> type, Key |-> key, Score |-> score]

\* Lines 116-134: the alerts in the order they are appended.
ConcatAlerts(dup, spikes, weekend, emp, small, thresh) ==
    [r \in DOMAIN dup.rows |->
        Alert("DuplicateInvoice", <<Col(dup, r, "InvoiceNumber")>>,
              DupScore(Col(dup, r, "TotalAmount").n))]
    \o
    [r \in DOMAIN spikes.rows |->
        Alert("AmountSpike", <<GetOr(spikes, r, "TransactionID")>>,
              SpikeScore(Col(spikes, r, "Zscore").n))]
    \o
    [r \in DOMAIN weekend.rows |->
        Alert("TimingAnomaly", <<GetOr(weekend, r, "TransactionID")>>, 500)]
    \o
    [r \in DOMAIN emp.rows |->
        Alert("EmployeePattern", <<GetOr(emp, r, "EmployeeID")>>,
              EmpScore(Col(emp, r, "Count").n))]
    \o
    [r \in DOMAIN small.rows |->
        Alert("ManySmallInvoices", <<Col(small, r, "Vendor"), Col(small, r, "DateOnly")>>, 650)]
    \o
    [r \in DOMAIN thresh.rows |->
        Alert("ThresholdAmount", <<GetOr(thresh, r, "TransactionID")>>, 550)]

Reverse(s) == [i \in DOMAIN s |-> s[Len(s) + 1 - i]]

\* An ascending sort turned round: alerts of equal Score change places.
SortAlerts_Reversed(list) ==
    Reverse(SortDescending(list, [k \in DOMAIN list |-> <<-list[k].Score>>]))

\* sorted(alerts, key=lambda x: x["Score"], reverse=True): Python's sort is
\* stable, also with reverse=True.
SortAlerts(list) == SortDescending(list, [k \in DOMAIN list |-> <<list[k].Score>>])

score_alerts(dup, spikes, weekend, emp, small, thresh) ==
    SortAlerts(ConcatAlerts(dup, spikes, weekend, emp, small, thresh))

----------------------------------------------------------------------------
(* The input tables.                                                        *)

\* Column labels of the label family: two spellings of Date and of Amount,
\* a lower-case TransactionID, InvoiceNumber and a label that matches nothing.
ColumnNames == {"Date", "DATE", "Amount", "amount", "transactionid", "InvoiceNumber", "Notes"}

ColumnLists ==
    {cs \in UNION {[1..n -> ColumnNames] : n \in 0..MaxCols} :
        \A i, j \in DOMAIN cs : i # j => cs[i] # cs[j]}

\* One cell for a column of the label family: well-formed ("good"),
\* unparseable ("bad") or missing ("null").
SampleCell(name, quality) ==
    IF quality = "null" THEN NaN
    ELSE IF Lower[name] = "date"
         THEN (IF quality = "good" THEN Str("2024-01-06") ELSE Str("not a date"))
    ELSE IF Lower[name] = "amount"
         THEN (IF quality = "good" THEN Str("250") ELSE Str("abc"))
    ELSE IF Lower[name] = "transactionid" THEN Str("T1")
    ELSE IF Lower[name] = "invoicenumber" THEN Str("INV1")
    ELSE Str("")

Qualities == {"good", "bad", "null"}

\* The labels of the row family, with and without TransactionID.
RowCols ==
    <<"TransactionID", "Date", "Time", "Vendor", "Amount", "Account",
      "EmployeeID", "InvoiceNumber">>

RowSamples ==
    { <<Str("T1"), Str("2024-01-06"), Str("23:00"), Str("V1"), Num(300), Str("A1"), Str("E1"), Str("INV1")>>,
      <<Str("T2"), Str("2024-01-06"), Str("09:30"), Str("V1"), Num(300), Str("A1"), Str("E1"), Str("INV1")>>,
      <<Str("T1"), Str("2024-01-08"), Str("23:00"), Str("V1"), Num(5500), Str("A1"), Str("E2"), Str("INV2")>>,
      <<NaN,       Str("2024-01-07"), NaN,          Str("V2"), Str("abc"), Str("A2"), Str("E2"), Str("INV2")>>,
      <<Str("T3"), Str("not a date"), Str("ab:cd"), Str("V2"), Num(9999), Str("A2"), Str("E1"), NaN>>,
      <<Str("T3"), Str("2024-01-08"), Str("2300"),  Str("V2"), Num(-20000), Str("A1"), Str("E1"), Str("INV1")>>,
      <<Str("T2"), Str("2024-01-05"), Str("05:59"), Str("V1"), Num(-15000), Str("A2"), Str("E2"), Str("INV1")>>,
      <<NaN,       Str("2024-02-30"), Str("20:59"), Str("V1"), Str("250"), Str("A2"), Str("E1"), Str("INV1")>> }

\* Up to MaxRows sample rows, no row taken twice.
RowLists ==
    {rs \in UNION {[1..n -> RowSamples] : n \in 0..MaxRows} :
        \A i, j \in DOMAIN rs : i # j => rs[i] # rs[j]}

\* n copies of x.
Copies(n, x) == [i \in 1..n |-> x]

TxRow(tid, amount, account, emp) ==
    <<Str(tid), Str("2024-01-08"), Str("09:30"), Str("V1"), Num(amount), Str(account), Str(emp), NaN>>

BaseAmounts == {0, 10}
OutlierAmounts == {10, 1000, -1000}

Employees == <<"E1", "E2", "E3", "E4", "E5">>
MaxLow == 2
EqualAmounts == {-7, 0, 3, 100}

\* The rows of employee k of Employees when each of the first employees has
\* lo transactions and the last one has hi.
EmployeeRows(k, lo, hi, a) ==
    Copies(IF k = Len(Employees) THEN hi ELSE lo, TxRow("T1", a, "A1", Employees[k]))

AllEmployeeRows(lo, hi, a) ==
    LET f[k \in 0..Len(Employees)] ==
            IF k = 0 THEN <<>> ELSE f[k - 1] \o EmployeeRows(k, lo, hi, a)
    IN  f[Len(Employees)]

----------------------------------------------------------------------------
(* The pipeline: a raw table is validated, the six rules run on the         *)
(* normalized table and score_alerts merges their findings.                 *)
Start(table) ==
    /\ raw = table
    /\ nat_fill \in {"str", "nat"}
    /\ pc = "raw"
    /\ df = EmptyFrame
    /\ dup_df = EmptyFrame
    /\ spikes_df = EmptyFrame
    /\ weekend_df = EmptyFrame
    /\ emp_df = EmptyFrame
    /\ many_small_df = EmptyFrame
    /\ thresh_df = EmptyFrame
    /\ alerts = <<>>

\* Tables with arbitrary labels and one row.
InitColumns ==
    \E cs \in ColumnLists, q \in Qualities :
        Start(Table(cs, <<[i \in DOMAIN cs |-> SampleCell(cs[i], q)]>>))

\* Tables of up to MaxRows different sample rows, with or without TransactionID.
InitRows ==
    \E rs \in RowLists, withId \in BOOLEAN :
        Start(IF withId THEN Table(RowCols, rs)
              ELSE Table(Tail(RowCols), [i \in DOMAIN rs |-> Tail(rs[i])]))

\* One account: copies of one amount and one other amount.
InitSpikes ==
    \E c \in 0..MaxCopies, b \in BaseAmounts, x \in OutlierAmounts :
        Start(Table(RowCols, Append(Copies(c, TxRow("T1", b, "A1", "E1")),
                                    TxRow("T2", x, "A1", "E1"))))

\* Five employees, every transaction of the same amount.
InitEmployees ==
    \E lo \in 1..MaxLow, hi \in 1..MaxCount, a \in EqualAmounts :
        Start(Table(RowCols, AllEmployeeRows(lo, hi, a)))

Validate ==
    /\ pc = "raw"
    /\ LET res == validate_transactions(raw, nat_fill)
       IN  /\ pc' = IF res.status = "ok" THEN "normalized" ELSE res.status
           /\ df' = IF res.status = "ok" THEN res.df ELSE df
    /\ UNCHANGED <<nat_fill, raw, dup_df, spikes_df, weekend_df, emp_df,
                   many_small_df, thresh_df, alerts>>

DetectDuplicates ==
    /\ pc = "normalized"
    /\ dup_df' = detect_duplicate_invoices(df)
    /\ pc' = "dup"
    /\ UNCHANGED <<nat_fill, raw, df, spikes_df, weekend_df, emp_df,
                   many_small_df, thresh_df, alerts>>

DetectSpikes ==
    /\ pc = "dup"
    /\ spikes_df' = detect_amount_spikes(df, Z_THRESH)
    /\ pc' = "spikes"
    /\ UNCHANGED <<nat_fill, raw, df, dup_df, weekend_df, emp_df,
                   many_small_df, thresh_df, alerts>>

DetectWeekend ==
    /\ pc = "spikes"
    /\ LET res == detect_weekend_night_transactions(df)
       IN  /\ pc' = IF res.status = "ok" THEN "weekend" ELSE res.status
           /\ weekend_df' = res.df
    /\ UNCHANGED <<nat_fill, raw, df, dup_df, spikes_df, emp_df,
                   many_small_df, thresh_df, alerts>>

DetectEmployees ==
    /\ pc = "weekend"
    /\ emp_df' = detect_employee_anomalies(df, MIN_TX)
    /\ pc' = "emp"
    /\ UNCHANGED <<nat_fill, raw, df, dup_df, spikes_df, weekend_df,
                   many_small_df, thresh_df, alerts>>

DetectManySmall ==
    /\ pc = "emp"
    /\ many_small_df' = detect_many_small_invoices_same_vendor(df, SAME_DAY_COUNT, SMALL_AMOUNT)
    /\ pc' = "small"
    /\ UNCHANGED <<nat_fill, raw, df, dup_df, spikes_df, weekend_df, emp_df,
                   thresh_df, alerts>>

DetectThresholds ==
    /\ pc = "small"
    /\ thresh_df' = detect_threshold_amounts(df, THRESHOLDS)
    /\ pc' = "thresh"
    /\ UNCHANGED <<nat_fill, raw, df, dup_df, spikes_df, weekend_df, emp_df,
                   many_small_df, alerts>>

ScoreAlerts ==
    /\ pc = "thresh"
    /\ alerts' = score_alerts(dup_df, spikes_df, weekend_df, emp_df, many_small_df, thresh_df)
    /\ pc' = "scored"
    /\ UNCHANGED <<nat_fill, raw, df, dup_df, spikes_df, weekend_df, emp_df,
                   many_small_df, thresh_df>>

Next ==
    \/ Validate
    \/ DetectDuplicates
    \/ DetectSpikes
    \/ DetectWeekend
    \/ DetectEmployees
    \/ DetectManySmall
    \/ DetectThresholds
    \/ ScoreAlerts

SpecColumns == InitColumns /\ [][Next]_vars
SpecRows == InitRows /\ [][Next]_vars
SpecSpikes == InitSpikes /\ [][Next]_vars
SpecEmployees == InitEmployees /\ [][Next]_vars

----------------------------------------------------------------------------
(* Properties.                                                              *)
Failed == {"ValueError", "DuplicateKeys", "TypeError"}

Normalized == pc \notin ({"raw"} \cup Failed)

AfterSpikes == pc \in {"spikes", "weekend", "emp", "small", "thresh", "scored"}

AfterWeekend == pc \in {"weekend", "emp", "small", "thresh", "scored"}

AfterEmployees == pc \in {"emp", "small", "thresh", "scored"}

\* The raw table has a label that matches key case-insensitively.
HasLabel(key) == \E i \in DOMAIN raw.columns : Lower[raw.columns[i]] = key

RequiredLabels ==
    /\ HasLabel("date")
    /\ HasLabel("amount")
    /\ (HasLabel("transactionid") \/ HasLabel("invoicenumber"))

\* C1: validate_transactions raises the validation error exactly for the
\* tables that, matched case-insensitively, lack Date, lack Amount or lack
\* both TransactionID and InvoiceNumber.
C1_ValidationError ==
    pc # "raw" => ((pc = "ValueError") <=> ~RequiredLabels)

\* A table spelled DATE / amount without any identifier column is rejected.
C1_Witness ==
    /\ pc = "ValueError"
    /\ {"DATE", "amount"} \subseteq Range(raw.columns)

Appended ==
    ConcatAlerts(dup_df, spikes_df, weekend_df, emp_df, many_small_df, thresh_df)

TypeRank ==
    ("DuplicateInvoice" :> 1) @@ ("AmountSpike" :> 2) @@ ("TimingAnomaly" :> 3) @@
    ("EmployeePattern" :> 4) @@ ("ManySmallInvoices" :> 5) @@ ("ThresholdAmount" :> 6)

WithScore(list, v) ==
    LET Is(a) == a.Score = v IN SelectSeq(list, Is)

KeysOfType(list, type) ==
    LET Is(a) == a.Type = type
        sel == SelectSeq(list, Is)
    IN  [i \in DOMAIN sel |-> sel[i].Key]

\* C4: the alert table is ordered by Score descending; alerts of equal Score
\* keep the order of the concatenation DuplicateInvoice, AmountSpike,
\* TimingAnomaly, EmployeePattern, ManySmallInvoices, ThresholdAmount and,
\* within a rule, the order of its finding rows.
C4_StableDescending ==
    pc = "scored" =>
        /\ Len(alerts) = Len(Appended)
        /\ \A i, j \in DOMAIN alerts : i < j => alerts[i].Score >= alerts[j].Score
        /\ \A i, j \in DOMAIN alerts :
               (i < j /\ alerts[i].Score = alerts[j].Score)
                   => TypeRank[alerts[i].Type] <= TypeRank[alerts[j].Type]
        /\ \A k \in DOMAIN alerts :
               WithScore(alerts, alerts[k].Score) = WithScore(Appended, alerts[k].Score)
        /\ KeysOfType(alerts, "TimingAnomaly")
               = [r \in DOMAIN weekend_df.rows |-> <<Col(weekend_df, r, "TransactionID")>>]
        /\ KeysOfType(alerts, "ThresholdAmount")
               = [r \in DOMAIN thresh_df.rows |-> <<Col(thresh_df, r, "TransactionID")>>]

\* Sorting moved an alert, and two different alerts of one rule tie.
C4_Witness ==
    /\ pc = "scored"
    /\ alerts # Appended
    /\ \E i, j \in DOMAIN alerts :
           /\ i < j
           /\ alerts[i].Score = alerts[j].Score
           /\ alerts[i].Type = alerts[j].Type
           /\ alerts[i].Key # alerts[j].Key

DupAlerts(inv) ==
    {k \in DOMAIN alerts : alerts[k].Type = "DuplicateInvoice" /\ alerts[k].Key = <<inv>>}

\* C5 as stated: the DuplicateInvoice Score is 80 + min(20, TotalAmount/1000)
\* with the exact quotient (both sides times 1000).
C5_ExactQuotient ==
    pc = "scored" =>
        \A r \in DOMAIN dup_df.rows :
            /\ DupAlerts(Col(dup_df, r, "InvoiceNumber")) # {}
            /\ \A k \in DupAlerts(Col(dup_df, r, "InvoiceNumber")) :
                   100 * alerts[k].Score = 80000 + Min(20000, Col(dup_df, r, "TotalAmount").n)

\* q is TotalAmount/1000 with its fraction dropped (toward zero), capped at 20.
IsTruncatedBonus(q, total) ==
    IF total >= 20000 THEN q = 20
    ELSE IF total >= 0 THEN 1000 * q <= total /\ total < 1000 * (q + 1)
    ELSE 1000 * (q - 1) < total /\ total <= 1000 * q

\* C5 amended: the DuplicateInvoice Score is the whole number
\* 80 + min(20, q), q being TotalAmount/1000 truncated toward zero.
C5_TruncatedQuotient ==
    pc = "scored" =>
        \A r \in DOMAIN dup_df.rows :
            /\ DupAlerts(Col(dup_df, r, "InvoiceNumber")) # {}
            /\ \A k \in DupAlerts(Col(dup_df, r, "InvoiceNumber")) :
                   /\ alerts[k].Score % 10 = 0
                   /\ IsTruncatedBonus((alerts[k].Score \div 10) - 80,
                                       Col(dup_df, r, "TotalAmount").n)

\* A duplicated invoice of TotalAmount 600 is scored 80 (not 80.6).
C5_Witness ==
    /\ pc = "scored"
    /\ \E r \in DOMAIN dup_df.rows :
           /\ Col(dup_df, r, "TotalAmount").n = 600
           /\ \E k \in DupAlerts(Col(dup_df, r, "InvoiceNumber")) : alerts[k].Score = 800

RawAmounts == [r \in DOMAIN raw.rows |-> Col(raw, r, "Amount").n]

FiveAmounts == AfterSpikes /\ RawAmounts = <<10, 10, 10, 10, 1000>>

SpikeAmounts == {Col(spikes_df, r, "Amount").n : r \in DOMAIN spikes_df.rows}

\* C6 as stated: of the amounts [10,10,10,10,1000] of one account the record
\* of amount 1000 is flagged and no record of amount 10 is.
C6_OutlierFlagged == FiveAmounts => SpikeAmounts = {1000}

\* C6 amended: none of the five records is flagged (the z-score of the
\* record of amount 1000 is 2.0, below the threshold 3.0).
C6_NoneFlagged == FiveAmounts => spikes_df.rows = <<>>

C6_Witness == FiveAmounts /\ pc = "spikes" /\ spikes_df = EmptyFrame

\* The number of rows of T that are the cells row.
CountRows(T, row) == Cardinality({r \in DOMAIN T.rows : T.rows[r] = row})

\* The number of rows of the weekend result made of the cells row and any Reason.
CountHits(row) ==
    Cardinality({r \in DOMAIN weekend_df.rows :
                    SubSeq(weekend_df.rows[r], 1, Len(row)) = row})

\* C7: every record dated on a Saturday or Sunday is in the result of
\* detect_weekend_night_transactions exactly once, tagged Weekend, and no
\* record is in it more than once.
C7_WeekendOnce ==
    AfterWeekend =>
        \A r \in DOMAIN df.rows :
            /\ CountHits(df.rows[r]) <= CountRows(df, df.rows[r])
            /\ IsWeekend(Col(df, r, "Date")) =>
                   CountRows(weekend_df, Append(df.rows[r], Str("Weekend")))
                       = CountRows(df, df.rows[r])

EmployeeCount(e) ==
    Cardinality({r \in DOMAIN df.rows : Col(df, r, "EmployeeID") = Str(e)})

\* Counts [1,1,1,1,10] over the five employees, the rule has run.
CountsOneOneOneOneTen ==
    /\ AfterEmployees
    /\ \A k \in 1..(Len(Employees) - 1) : EmployeeCount(Employees[k]) = 1
    /\ EmployeeCount(Employees[Len(Employees)]) = 10

Flagged == {Col(emp_df, r, "EmployeeID") : r \in DOMAIN emp_df.rows}

OnlyLastFlagged == Flagged = {Str(Employees[Len(Employees)])}

\* C8 as stated: with counts [1,1,1,1,10] and one amount for every
\* transaction, only the employee of count 10 is flagged, whatever the amount.
C8_OnlyTenFlagged == CountsOneOneOneOneTen => OnlyLastFlagged

\* C8 amended: the same for every amount greater than zero.
C8_OnlyTenFlaggedPositive ==
    (CountsOneOneOneOneTen /\ Col(df, 1, "Amount").n > 0) => OnlyLastFlagged

C8_Witness ==
    /\ CountsOneOneOneOneTen
    /\ Col(df, 1, "Amount").n > 0
    /\ pc = "emp"
    /\ Len(emp_df.rows) = 1

\* C9: validate_transactions applied to its own result returns that result.
C9_Idempotent ==
    Normalized => validate_transactions(df, nat_fill) = [status |-> "ok", df |-> df]

\* A normalized table whose Date was unparseable and whose Amount was coerced.
C9_Witness ==
    /\ pc = "normalized"
    /\ df # raw
    /\ \E i \in DOMAIN raw.columns : raw.rows[1][i] = Str("not a date")
    /\ Col(df, 1, "Amount") = Num(0)
    /\ Col(df, 1, "Date").t # "ts"

\* C10: every alert has a Score between 50 and 100.
C10_ScoreRange ==
    pc = "scored" => \A k \in DOMAIN alerts : alerts[k].Score >= 500 /\ alerts[k].Score <= 1000

====
